---- MODULE Spec2Model ----
(***************************************************************************)
(* readeckobo: the Kobo (Instapaper-style) endpoints of internal/app and   *)
(* the Readeck API client of internal/readeck, as state machines.          *)
(*                                                                         *)
(* One device request is served at a time (the handlers share no state).   *)
(* A handler is cut into steps at its blocking calls to the backend; the   *)
(* backend's answer to each call is an input of the step.                  *)
(***************************************************************************)
EXTENDS Integers, Sequences, FiniteSets, TLC

(***************************************************************************)
(* Bounds of the model.                                                    *)
(***************************************************************************)
NumIds == 2
MaxFeedLen == 2
MaxActions == 2

(***************************************************************************)
(* Values.                                                                 *)
(***************************************************************************)
Ids == 1..NumIds

\* The value of a JSON field that is absent from an object.
NoField == "<absent>"

\* config.Users: the static device-token -> Readeck credential table.
Users == << [Token |-> "devA", ReadeckAccessToken |-> "credA"],
            [Token |-> "devB", ReadeckAccessToken |-> "credB"] >>

\* Device tokens a request may carry.
DeviceTokens == {"devA", "bad"}

\* Outcome of one HTTP exchange with the backend: 0 stands for a transport
\* failure (HTTPClient.Do returned an error), any other value is the status.
TransportFailure == 0
BackendCodes == {TransportFailure, 200, 204, 304, 404, 500}

\* Strings the device may send as `count` / `offset` (sequences of characters).
NumStrings == { <<>>, <<"1">>, <<"2">>, <<"-", "1">>, <<"x">> }

SeqsUpTo(S, n) == UNION { [1..k -> S] : k \in 0..n }

(***************************************************************************)
(* strconv.Atoi as the handlers use it: the error is dropped, and the      *)
(* value returned with a syntax error is 0.                                *)
(***************************************************************************)
IsDigit(c) == c \in {"0", "1", "2", "3", "4", "5", "6", "7", "8", "9"}

DigitVal(c) ==
  CASE c = "0" -> 0 [] c = "1" -> 1 [] c = "2" -> 2 [] c = "3" -> 3
    [] c = "4" -> 4 [] c = "5" -> 5 [] c = "6" -> 6 [] c = "7" -> 7
    [] c = "8" -> 8 [] c = "9" -> 9

RECURSIVE DigitsValue(_, _)
DigitsValue(s, acc) ==
  IF s = <<>> THEN acc ELSE DigitsValue(Tail(s), 10 * acc + DigitVal(Head(s)))

AllDigits(s) == \A k \in DOMAIN s : IsDigit(s[k])

Atoi(s) ==
  LET signed == s # <<>> /\ Head(s) \in {"-", "+"}
      body   == IF signed THEN Tail(s) ELSE s
  IN  IF body = <<>> \/ ~AllDigits(body) THEN 0
      ELSE IF signed /\ Head(s) = "-" THEN 0 - DigitsValue(body, 0)
      ELSE DigitsValue(body, 0)

(***************************************************************************)
(* App.getReadeckToken: first configured user whose token matches.         *)
(***************************************************************************)
RECURSIVE LookupUser(_, _)
LookupUser(users, deviceToken) ==
  IF users = <<>> THEN [ok |-> FALSE, token |-> ""]
  ELSE IF Head(users).Token = deviceToken
       THEN [ok |-> TRUE, token |-> Head(users).ReadeckAccessToken]
       ELSE LookupUser(Tail(users), deviceToken)

\* Variant: a token no user has is served with the first user's credential.
getReadeckTokenLenient(deviceToken) ==
  LET r == LookupUser(Users, deviceToken)
  IN  IF r.ok THEN r ELSE [ok |-> TRUE, token |-> Users[1].ReadeckAccessToken]

getReadeckToken(deviceToken) == LookupUser(Users, deviceToken)

(***************************************************************************)
(* Client.doRequest / doRequestRaw: classification of the exchange.        *)
(* "none" is success, "transport" a wrapped transport error, "api" an      *)
(* *APIError carrying the status code.                                     *)
(***************************************************************************)
NoError == [kind |-> "none", code |-> 0]

\* Variant: a 404 is not an error for any call.
doRequestLenient(code) ==
  IF code = TransportFailure THEN [kind |-> "transport", code |-> 0]
  ELSE IF (code < 200 \/ code >= 300) /\ code # 404 THEN [kind |-> "api", code |-> code]
  ELSE NoError

doRequest(code) ==
  IF code = TransportFailure THEN [kind |-> "transport", code |-> 0]
  ELSE IF code < 200 \/ code >= 300 THEN [kind |-> "api", code |-> code]
  ELSE NoError

(***************************************************************************)
(* Sync: data.                                                             *)
(***************************************************************************)
\* readeck.BookmarkSync
SyncEvents == [ID : Ids, Type : {"update", "delete"}]

Feeds == SeqsUpTo(SyncEvents, MaxFeedLen)

\* readeck.Bookmark, restricted to the fields the sync projection reads.
\* The result of SyncBookmarksContent is keyed by the bookmark's own ID.
BookmarkFlags == [IsArchived : BOOLEAN, IsMarked : BOOLEAN]

\* The maps SyncBookmarksContent may return for the requested ids.  The
\* handler reads the map only at the ids it requested, so entries for other
\* ids are left out.
SeqRange(q) == { q[k] : k \in DOMAIN q }

DetailMaps(ids) ==
  UNION { { [id \in D |-> [ID |-> id,
                           IsArchived |-> f[id].IsArchived,
                           IsMarked |-> f[id].IsMarked]] : f \in [D -> BookmarkFlags] }
          : D \in SUBSET SeqRange(ids) }

EmptyMap == [x \in {} |-> 0]

MapPut(m, k, v) == [x \in (DOMAIN m) \cup {k} |-> IF x = k THEN v ELSE m[x]]

\* The entry written for a delete event (item_id and status only).
DeletedEntry(id) == [item_id |-> id, status |-> "2", favorite |-> NoField]

(***************************************************************************)
(* HandleKoboGet, first loop: delete events go straight into resultList,   *)
(* every other event is a candidate for the batch fetch.                   *)
(***************************************************************************)
\* Variant: a delete event leaves resultList as it is.
FirstLoopStepNoDelete(resultList, bsync) == resultList

\* The body of the first loop, for one event.
FirstLoopStep(resultList, bsync) ==
  IF bsync.Type = "delete"
  THEN MapPut(resultList, bsync.ID, DeletedEntry(bsync.ID))
  ELSE resultList

RECURSIVE CollectDeletes(_, _)
CollectDeletes(evs, resultList) ==
  IF evs = <<>> THEN resultList
  ELSE CollectDeletes(Tail(evs), FirstLoopStep(resultList, Head(evs)))

RECURSIVE CandidateBookmarkIDs(_)
CandidateBookmarkIDs(evs) ==
  IF evs = <<>> THEN <<>>
  ELSE IF Head(evs).Type = "delete" THEN CandidateBookmarkIDs(Tail(evs))
       ELSE <<Head(evs).ID>> \o CandidateBookmarkIDs(Tail(evs))

(***************************************************************************)
(* HandleKoboGet, second loop.                                             *)
(***************************************************************************)
\* Variant: every found bookmark is counted.
CountsEveryFound(bookmark) == TRUE

\* `if !bookmark.IsArchived { totalNonArchivedBookmarks++ }`
CountsInTotal(bookmark) == ~bookmark.IsArchived

\* Variant: archived bookmarks are listed like the others.
SkipsNothing(bookmark) == FALSE

\* `if bookmark.IsArchived { continue }`
SkippedAsArchived(bookmark) == bookmark.IsArchived

\* entry["favorite"]: the handler assigns the literal "0" and never reads
\* bookmark.IsMarked.
EntryFavorite(bookmark) == "0"

\* The entry built for a listed bookmark.
FullEntry(bookmark) ==
  [item_id |-> bookmark.ID, status |-> "0", favorite |-> EntryFavorite(bookmark)]

\* Variant: an id the batch result lacks is served as a blank bookmark.
LookupDetailBlank(detailsMap, id) ==
  IF id \in DOMAIN detailsMap
  THEN [found |-> TRUE, bookmark |-> detailsMap[id]]
  ELSE [found |-> TRUE,
        bookmark |-> [ID |-> id, IsArchived |-> FALSE, IsMarked |-> FALSE]]

\* `bookmark, found := bookmarksDetailsMap[bsync.ID]`
LookupDetail(detailsMap, id) ==
  IF id \in DOMAIN detailsMap
  THEN [found |-> TRUE, bookmark |-> detailsMap[id]]
  ELSE [found |-> FALSE, bookmark |-> [ID |-> ""]]

RECURSIVE ProcessEvents(_, _, _, _)
ProcessEvents(evs, detailsMap, actual, total) ==
  IF evs = <<>> THEN [actualBookmarks |-> actual, total |-> total]
  ELSE
    LET ev == Head(evs) IN
    IF ev.Type = "delete" THEN ProcessEvents(Tail(evs), detailsMap, actual, total)
    ELSE IF ~LookupDetail(detailsMap, ev.ID).found
         THEN ProcessEvents(Tail(evs), detailsMap, actual, total)
    ELSE
      LET bookmark == LookupDetail(detailsMap, ev.ID).bookmark
          total2   == IF CountsInTotal(bookmark) THEN total + 1 ELSE total
      IN  IF SkippedAsArchived(bookmark)
          THEN ProcessEvents(Tail(evs), detailsMap, actual, total2)
          ELSE ProcessEvents(Tail(evs), detailsMap,
                             Append(actual, FullEntry(bookmark)), total2)

(***************************************************************************)
(* HandleKoboGet, offset/count window over actualBookmarks (length n).     *)
(***************************************************************************)
\* Variant: the window always starts at the first element.
StartIndexZero(offset, count, n) == 0

StartIndex(offset, count, n) == IF offset > n THEN n ELSE offset

\* Variant: count = 0 is not treated as "no limit".
EndIndexNoZeroCase(offset, count, n) ==
  IF offset + count > n THEN n ELSE offset + count

EndIndex(offset, count, n) ==
  LET e == IF count = 0 THEN n ELSE offset + count
  IN  IF e > n THEN n ELSE e

\* actualBookmarks[startIndex:endIndex] is a run-time panic unless
\* 0 <= startIndex <= endIndex <= cap.
SliceInRange(s, e, n) == 0 <= s /\ s <= e /\ e <= n

\* actualBookmarks[startIndex:endIndex], for bounds that are in range.
Window(actualBookmarks, s, e) == SubSeq(actualBookmarks, s + 1, e)

RECURSIVE PutAll(_, _)
PutAll(resultList, entries) ==
  IF entries = <<>> THEN resultList
  ELSE PutAll(MapPut(resultList, Head(entries).item_id, Head(entries)), Tail(entries))

(***************************************************************************)
(* State.                                                                  *)
(***************************************************************************)
VARIABLES
  pc,        \* position of the handler serving the current request
  req,       \* the decoded device request
  cred,      \* AccessToken of the readeck.Client built for the request
  calls,     \* HTTP exchanges with the backend made for the request, in order
  bsyncs,    \* HandleKoboGet: events returned by GetBookmarksSync
  details,   \* HandleKoboGet: bookmarksDetailsMap
  resultList,\* HandleKoboGet: resultList
  i,         \* HandleKoboSend: index of the next action of the loop
  actionResults, \* HandleKoboSend: actionResults
  allSucceeded,  \* HandleKoboSend: allSucceeded
  sitesToTry,    \* HandleKoboDownload: sitesToTry
  site,          \* HandleKoboDownload: index of the site of the outer loop
  currentPage,   \* HandleKoboDownload: currentPage
  totalPages,    \* HandleKoboDownload: totalPages
  bookmarkFound, \* HandleKoboDownload: bookmarkFound
  resp       \* the response written to the device

vars == <<pc, req, cred, calls, bsyncs, details, resultList,
          i, actionResults, allSucceeded,
          sitesToTry, site, currentPage, totalPages, bookmarkFound, resp>>

syncVars == <<bsyncs, details, resultList>>
sendVars == <<i, actionResults, allSucceeded>>
downloadVars == <<sitesToTry, site, currentPage, totalPages, bookmarkFound>>

\* bookmarkFound = nil
NoBookmark == [ID |-> "", URL |-> NoField]

NoReq == [endpoint |-> "none"]
NoResp == [status |-> -1]

\* A response without a JSON body of the endpoint (http.Error).
ErrorResp(status) == [status |-> status]

\* The handler panicked before writing a header: net/http drops the
\* connection and the device gets no response.
PanicResp == [status |-> 0]

Init ==
  /\ pc = "idle"
  /\ req = NoReq
  /\ cred = ""
  /\ calls = <<>>
  /\ bsyncs = <<>>
  /\ details = EmptyMap
  /\ resultList = EmptyMap
  /\ i = 1
  /\ actionResults = <<>>
  /\ allSucceeded = TRUE
  /\ sitesToTry = <<>>
  /\ site = 1
  /\ currentPage = 1
  /\ totalPages = 1
  /\ bookmarkFound = NoBookmark
  /\ resp = NoResp

(***************************************************************************)
(* POST /api/kobo/get                                                      *)
(***************************************************************************)
\* `since` as decoded from JSON: absent (nil), a number, or another type.
SinceKinds == {"absent", "number", "other"}

\* The *time.Time handed to GetBookmarksSync.
SinceParam(since) == IF since = "number" THEN "ts" ELSE "nil"

\* Entry of the handler up to the first backend call.
SyncReceive ==
  /\ pc = "idle"
  /\ \E shape \in {"ok", "not_post", "bad_json"}, tok \in DeviceTokens,
        c \in NumStrings, o \in NumStrings, s \in SinceKinds :
       IF shape = "not_post"
       THEN /\ req' = [endpoint |-> "get", shape |-> shape]
            /\ resp' = ErrorResp(405)
            /\ pc' = "done"
            /\ cred' = cred
       ELSE IF shape = "bad_json"
       THEN /\ req' = [endpoint |-> "get", shape |-> shape]
            /\ resp' = ErrorResp(400)
            /\ pc' = "done"
            /\ cred' = cred
       ELSE /\ req' = [endpoint |-> "get", shape |-> shape, AccessToken |-> tok,
                       Count |-> c, Offset |-> o, Since |-> s]
            /\ LET r == getReadeckToken(tok) IN
               IF ~r.ok
               THEN /\ resp' = ErrorResp(401)
                    /\ pc' = "done"
                    /\ cred' = cred
               ELSE /\ cred' = r.token
                    /\ pc' = "sync_feed"
                    /\ resp' = resp
  /\ UNCHANGED <<calls, bsyncs, details, resultList, sendVars, downloadVars>>

\* GetBookmarksSync and the first loop.  The call fails on a transport
\* error, a non-2xx status or a body that does not decode.
SyncFeed ==
  /\ pc = "sync_feed"
  /\ \E code \in BackendCodes :
       /\ calls' = Append(calls, [op |-> "GetBookmarksSync", cred |-> cred,
                                  since |-> SinceParam(req.Since), code |-> code])
       /\ \/ /\ doRequest(code).kind = "none"
             /\ \E feed \in Feeds :
                  /\ bsyncs' = feed
                  /\ resultList' = CollectDeletes(feed, EmptyMap)
                  /\ pc' = "sync_details"
                  /\ resp' = resp
          \/ /\ resp' = ErrorResp(500)
             /\ pc' = "done"
             /\ UNCHANGED <<bsyncs, resultList>>
  /\ UNCHANGED <<req, cred, details, sendVars, downloadVars>>

\* SyncBookmarksContent, the second loop, the window and the response.
SyncFinish(detailsMap) ==
  LET r     == ProcessEvents(bsyncs, detailsMap, <<>>, 0)
      n     == Len(r.actualBookmarks)
      count == Atoi(req.Count)
      offset == Atoi(req.Offset)
      s     == StartIndex(offset, count, n)
      e     == EndIndex(offset, count, n)
  IN
  /\ details' = detailsMap
  /\ pc' = "done"
  /\ IF ~SliceInRange(s, e, n)
     THEN /\ resp' = PanicResp
          /\ resultList' = resultList
     ELSE LET rl == PutAll(resultList, Window(r.actualBookmarks, s, e))
          IN  /\ resultList' = rl
              /\ resp' = [status |-> 200, list |-> rl, total |-> r.total]

\* With no candidate id the client returns an empty map without a call;
\* otherwise the call fails on a transport error, a non-2xx status or a
\* response that does not parse as multipart.
SyncDetails ==
  /\ pc = "sync_details"
  /\ LET ids == CandidateBookmarkIDs(bsyncs) IN
     IF ids = <<>>
     THEN /\ calls' = calls
          /\ SyncFinish(EmptyMap)
     ELSE \E code \in BackendCodes :
            /\ calls' = Append(calls, [op |-> "SyncBookmarksContent", cred |-> cred,
                                       ids |-> ids, code |-> code])
            /\ \/ /\ doRequest(code).kind = "none"
                  /\ \E m \in DetailMaps(ids) : SyncFinish(m)
               \/ /\ resp' = ErrorResp(500)
                  /\ pc' = "done"
                  /\ UNCHANGED <<details, resultList>>
  /\ UNCHANGED <<req, cred, bsyncs, sendVars, downloadVars>>

SyncNext == SyncReceive \/ SyncFeed \/ SyncDetails

SpecSync == Init /\ [][SyncNext]_vars

(***************************************************************************)
(* POST /api/kobo/send                                                     *)
(***************************************************************************)
\* A JSON value that is present but is not a string.
NotAString == "<number>"

ItemIds == {"b1"}
Urls == {"u1"}

UpdateActions == {"archive", "readd", "favorite", "unfavorite", "delete"}
NoopActions == {"opened_item", "left_item"}

\* Elements of the `actions` array: either not a JSON object at all, or an
\* object whose fields may be absent or of another type than string.
ActionValues ==
  { [isObject |-> FALSE, action |-> NoField, item_id |-> NoField, url |-> NoField] }
  \cup [isObject : {TRUE}, action : UpdateActions,
        item_id : ItemIds \cup {NoField, NotAString}, url : {NoField}]
  \cup [isObject : {TRUE}, action : {"add"},
        item_id : {NoField}, url : Urls \cup {NoField, NotAString}]
  \cup [isObject : {TRUE}, action : NoopActions \cup {"bogus", NoField},
        item_id : {NoField}, url : {NoField}]

\* `v, _ := m[key].(string)`: the zero string unless the value is a string.
AsString(v) == IF v \in {NoField, NotAString} THEN "" ELSE v

\* Variant: a 404 is an error like any other status.
UpdateBookmarkStrict(code) ==
  IF code = TransportFailure THEN [kind |-> "transport", code |-> 0]
  ELSE IF code < 200 \/ code >= 300 THEN [kind |-> "api", code |-> code]
  ELSE [kind |-> "none", code |-> 0]

\* Client.UpdateBookmark: the error returned for a backend outcome.
UpdateBookmark(code) ==
  LET err == doRequest(code)
  IN  IF err.kind = "api" /\ err.code = 404 THEN NoError ELSE err

\* Client.CreateBookmark: the error returned for a backend outcome.
CreateBookmark(code) == doRequest(code)

\* Variant: readd archives the bookmark.
ActionOpReaddArchives(action) ==
  CASE action \in {"archive", "readd"}
                             -> [op |-> "UpdateBookmark", field |-> "is_archived", value |-> TRUE]
    [] action = "favorite"   -> [op |-> "UpdateBookmark", field |-> "is_marked", value |-> TRUE]
    [] action = "unfavorite" -> [op |-> "UpdateBookmark", field |-> "is_marked", value |-> FALSE]
    [] action = "delete"     -> [op |-> "UpdateBookmark", field |-> "is_deleted", value |-> TRUE]
    [] action = "add"        -> [op |-> "CreateBookmark", field |-> "url", value |-> TRUE]
    [] action \in NoopActions -> [op |-> "noop", field |-> "", value |-> TRUE]
    [] OTHER                 -> [op |-> "unknown", field |-> "", value |-> TRUE]

\* The switch of HandleKoboSend: the backend operation an action string
\* selects ("noop": err = nil without a call; "unknown": the default branch).
ActionOp(action) ==
  CASE action = "archive"    -> [op |-> "UpdateBookmark", field |-> "is_archived", value |-> TRUE]
    [] action = "readd"      -> [op |-> "UpdateBookmark", field |-> "is_archived", value |-> FALSE]
    [] action = "favorite"   -> [op |-> "UpdateBookmark", field |-> "is_marked", value |-> TRUE]
    [] action = "unfavorite" -> [op |-> "UpdateBookmark", field |-> "is_marked", value |-> FALSE]
    [] action = "delete"     -> [op |-> "UpdateBookmark", field |-> "is_deleted", value |-> TRUE]
    [] action = "add"        -> [op |-> "CreateBookmark", field |-> "url", value |-> TRUE]
    [] action \in NoopActions -> [op |-> "noop", field |-> "", value |-> TRUE]
    [] OTHER                 -> [op |-> "unknown", field |-> "", value |-> TRUE]

\* Variant: a failed action ends the loop.
AfterActionBreak(k, n, ok) == IF ok THEN k + 1 ELSE n + 1

\* The index the loop goes to after the action at index k (`continue` and
\* the end of the body both go on with the next action).
AfterAction(k, n, ok) == k + 1

\* Variant: the flag follows the last action only.
AccumulateLast(all, ok) == ok

\* allSucceeded after an action with result ok.
Accumulate(all, ok) == all /\ ok

\* The response written once the loop is over.
SendResp(results, all) ==
  [status |-> 200, json_status |-> all, action_results |-> results]

\* Entry of the handler up to the loop.
SendReceive ==
  /\ pc = "idle"
  /\ \E shape \in {"ok", "not_post", "bad_json"}, tok \in DeviceTokens,
        acts \in SeqsUpTo(ActionValues, MaxActions) :
       IF shape = "not_post"
       THEN /\ req' = [endpoint |-> "send", shape |-> shape]
            /\ resp' = ErrorResp(405)
            /\ pc' = "done"
            /\ UNCHANGED <<cred, sendVars>>
       ELSE IF shape = "bad_json"
       THEN /\ req' = [endpoint |-> "send", shape |-> shape]
            /\ resp' = ErrorResp(400)
            /\ pc' = "done"
            /\ UNCHANGED <<cred, sendVars>>
       ELSE /\ req' = [endpoint |-> "send", shape |-> shape,
                       AccessToken |-> tok, Actions |-> acts]
            /\ LET r == getReadeckToken(tok) IN
               IF ~r.ok
               THEN /\ resp' = ErrorResp(401)
                    /\ pc' = "done"
                    /\ UNCHANGED <<cred, sendVars>>
               ELSE /\ cred' = r.token
                    /\ actionResults' = [k \in 1..Len(acts) |-> FALSE]
                    /\ allSucceeded' = TRUE
                    /\ i' = 1
                    /\ IF acts = <<>>
                       THEN /\ pc' = "done"
                            /\ resp' = SendResp(<<>>, TRUE)
                       ELSE /\ pc' = "send_loop"
                            /\ resp' = resp
  /\ UNCHANGED <<calls, syncVars, downloadVars>>

\* State after the body of the loop ran for index i with result ok.
SendAdvance(ok) ==
  LET n       == Len(req.Actions)
      results == [actionResults EXCEPT ![i] = ok]
      all     == Accumulate(allSucceeded, ok)
      next    == AfterAction(i, n, ok)
  IN  /\ actionResults' = results
      /\ allSucceeded' = all
      /\ i' = next
      /\ IF next > n
         THEN /\ pc' = "done"
              /\ resp' = SendResp(results, all)
         ELSE /\ pc' = pc
              /\ resp' = resp

\* One iteration of the loop over req.Actions.
SendAction ==
  /\ pc = "send_loop"
  /\ i <= Len(req.Actions)
  /\ LET a == req.Actions[i] IN
     IF ~a.isObject
     THEN /\ calls' = calls
          /\ SendAdvance(FALSE)
     ELSE
       LET action == AsString(a.action)
           t      == ActionOp(action)
       IN
       IF t.op = "UpdateBookmark"
       THEN \E code \in BackendCodes :
              /\ calls' = Append(calls,
                   [op |-> "UpdateBookmark", cred |-> cred, idx |-> i,
                    id |-> AsString(a.item_id), field |-> t.field,
                    value |-> t.value, code |-> code,
                    err |-> UpdateBookmark(code).kind])
              /\ SendAdvance(UpdateBookmark(code).kind = "none")
       ELSE IF t.op = "CreateBookmark"
       THEN \E code \in BackendCodes :
              /\ calls' = Append(calls,
                   [op |-> "CreateBookmark", cred |-> cred, idx |-> i,
                    url |-> AsString(a.url), code |-> code,
                    err |-> CreateBookmark(code).kind])
              /\ SendAdvance(CreateBookmark(code).kind = "none")
       ELSE /\ calls' = calls
            /\ SendAdvance(t.op = "noop")
  /\ UNCHANGED <<req, cred, syncVars, downloadVars>>

SendNext == SendReceive \/ SendAction

SpecSend == Init /\ [][SendNext]_vars

(***************************************************************************)
(* URLs.  A URL string is modelled by the components url.Parse splits it   *)
(* into; a host string and a site name are the sequence of their           *)
(* dot-separated labels (the empty string has the single label "").        *)
(***************************************************************************)
MaxLabels == 3

HostLabels == {"", "www", "x", "y", "com"}

\* Host strings: what strings.Split(host, ".") returns for them.
Hosts == UNION { [1..k -> HostLabels] : k \in 1..MaxLabels }

UrlHosts == { <<"x", "com">>, <<"www", "x", "com">>,
              <<"www", "www", "x", "com">>, <<"y", "com">> }

\* A path is the sequence of its segments: "/a" is <<"a">>, "/a/" is
\* <<"a", "">>, the empty path is <<>>.
UrlPaths == { <<"a">>, <<"a", "">>, <<"b">> }

\* The empty string, and a string url.Parse rejects.
EmptyURL == [parses |-> TRUE, scheme |-> "", host |-> <<"">>, path |-> <<>>,
             query |-> "", fragment |-> ""]
BadURL == [parses |-> FALSE, scheme |-> "", host |-> <<"">>, path |-> <<>>,
           query |-> "", fragment |-> ""]

UrlStrings ==
  [parses : {TRUE}, scheme : {"http", "https"}, host : UrlHosts,
   path : UrlPaths, query : {"", "q"}, fragment : {"", "f"}]
  \cup {EmptyURL, BadURL}

\* url.Parse: the fields the handlers read, or an error.
ParseURL(u) ==
  IF u.parses
  THEN [err |-> FALSE, Scheme |-> u.scheme, Host |-> u.host, Path |-> u.path]
  ELSE [err |-> TRUE, Scheme |-> "", Host |-> <<"">>, Path |-> <<>>]

\* strings.TrimPrefix(host, "www."): one leading "www." is cut.
TrimPrefixWww(host) ==
  IF Len(host) >= 2 /\ host[1] = "www" THEN Tail(host) ELSE host

\* Variant: the hosts are compared as they were parsed.
compareURLsRaw(url1, url2) ==
  LET u1 == ParseURL(url1)
      u2 == ParseURL(url2)
  IN  IF u1.err \/ u2.err THEN [match |-> FALSE, err |-> TRUE]
      ELSE [match |-> /\ u1.Scheme = u2.Scheme
                      /\ u1.Host = u2.Host
                      /\ u1.Path = u2.Path,
            err |-> FALSE]

\* compareURLs
compareURLs(url1, url2) ==
  LET u1 == ParseURL(url1)
      u2 == ParseURL(url2)
  IN  IF u1.err \/ u2.err THEN [match |-> FALSE, err |-> TRUE]
      ELSE [match |-> /\ u1.Scheme = u2.Scheme
                      /\ TrimPrefixWww(u1.Host) = TrimPrefixWww(u2.Host)
                      /\ u1.Path = u2.Path,
            err |-> FALSE]

\* The final loop of getSitesToTry: first occurrences, in order.
RECURSIVE UniqueSites(_, _)
UniqueSites(sites, seen) ==
  IF sites = <<>> THEN <<>>
  ELSE IF Head(sites) \in seen THEN UniqueSites(Tail(sites), seen)
       ELSE <<Head(sites)>> \o UniqueSites(Tail(sites), seen \cup {Head(sites)})

\* Variant: the top-level label is the second candidate.
getSitesToTryLast(host) ==
  LET parts == host
      sites == IF Len(parts) >= 2
               THEN LET siteName == parts[Len(parts)]
                    IN  IF siteName # "" /\ <<siteName>> # host
                        THEN <<host, <<siteName>> >>
                        ELSE <<host>>
               ELSE <<host>>
  IN  UniqueSites(sites, {})

\* getSitesToTry
getSitesToTry(host) ==
  LET parts == host
      sites == IF Len(parts) >= 2
               THEN LET siteName == parts[Len(parts) - 1]
                    IN  IF siteName # "" /\ <<siteName>> # host
                        THEN <<host, <<siteName>> >>
                        ELSE <<host>>
               ELSE <<host>>
  IN  UniqueSites(sites, {})

\* getSitesToTry applied to one host.
SitesApply ==
  /\ pc = "idle"
  /\ \E host \in Hosts :
       /\ req' = [endpoint |-> "getSitesToTry", host |-> host]
       /\ resp' = [status |-> -1, value |-> getSitesToTry(host)]
  /\ pc' = "done"
  /\ UNCHANGED <<cred, calls, syncVars, sendVars, downloadVars>>

SpecSites == Init /\ [][SitesApply]_vars

\* compareURLs applied to one pair of URL strings.
CompareApply ==
  /\ pc = "idle"
  /\ \E url1 \in UrlStrings, url2 \in UrlStrings :
       /\ req' = [endpoint |-> "compareURLs", url1 |-> url1, url2 |-> url2]
       /\ resp' = [status |-> -1, value |-> compareURLs(url1, url2)]
  /\ pc' = "done"
  /\ UNCHANGED <<cred, calls, syncVars, sendVars, downloadVars>>

SpecUrls == Init /\ [][CompareApply]_vars

(***************************************************************************)
(* The article tree (html.Node) and the rewrite of its images.             *)
(***************************************************************************)
MaxChildren == 2

ImageSources == {"s1", "s2"}

Img(src) == [type |-> "element", data |-> "img", src |-> src, children |-> <<>>]
Div(children) ==
  [type |-> "element", data |-> "div", src |-> NoField, children |-> children]
Document(children) ==
  [type |-> "document", data |-> "", src |-> NoField, children |-> children]
Comment(data) ==
  [type |-> "comment", data |-> data, src |-> NoField, children |-> <<>>]

\* Variant: the ordinals start at 1.
MarkerFromOne(imageIndex) == <<"IMG_", imageIndex + 1>>

\* fmt.Sprintf("IMG_%d", imageIndex)
Marker(imageIndex) == <<"IMG_", imageIndex>>

\* img elements with and without a src attribute.
ImgNodes == { Img(src) : src \in ImageSources \cup {NoField} }

\* Elements whose children are img elements.
FlatNodes == { Div(c) : c \in SeqsUpTo(ImgNodes, MaxChildren) }

\* Documents as html.Parse may return them.
Articles == { Document(c) : c \in SeqsUpTo(ImgNodes \cup FlatNodes, MaxChildren) }

\* The images map and the counter before the traversal.
NoImages == [images |-> EmptyMap, imageIndex |-> 0]

IsImgWithSrc(n) == n.type = "element" /\ n.data = "img" /\ n.src # NoField

\* images[fmt.Sprintf("%d", imageIndex)] = {...}
RecordImage(st, src) ==
  [images |-> MapPut(st.images, st.imageIndex,
                     [image_id |-> st.imageIndex, item_id |-> st.imageIndex,
                      src |-> src]),
   imageIndex |-> st.imageIndex + 1]

\* processNode(n) for a node n with a parent.  `replaced` tells that n was
\* taken out of its parent (RemoveChild clears n.NextSibling) and that
\* `node` is the comment put in its place; otherwise `node` is n with its
\* children processed.  ProcessChildren is the loop
\* `for c := n.FirstChild; c != nil; c = c.NextSibling`, from child k on:
\* it ends at the first child that was replaced, because the NextSibling of
\* a removed node is nil.
RECURSIVE processNode(_, _), ProcessChildren(_, _, _)
processNode(n, st) ==
  IF IsImgWithSrc(n)
  THEN [replaced |-> TRUE, node |-> Comment(Marker(st.imageIndex)),
        st |-> RecordImage(st, n.src)]
  ELSE LET r == ProcessChildren(n.children, 1, st)
       IN  [replaced |-> FALSE, node |-> [n EXCEPT !.children = r.children],
            st |-> r.st]

ProcessChildren(children, k, st) ==
  IF k > Len(children) THEN [children |-> children, st |-> st]
  ELSE LET r    == processNode(children[k], st)
           next == [children EXCEPT ![k] = r.node]
       IN  IF r.replaced THEN [children |-> next, st |-> r.st]
           ELSE ProcessChildren(next, k + 1, r.st)

\* processNode(doc): the rewritten tree and the images map.
RewriteArticle(doc) ==
  LET r == processNode(doc, NoImages)
  IN  [article |-> r.node, images |-> r.st.images]

\* The rewrite applied to one document, then to its own output.
RewriteFirst ==
  /\ pc = "idle"
  /\ \E doc \in Articles :
       /\ req' = [endpoint |-> "rewrite", doc |-> doc]
       /\ resp' = [status |-> -1, first |-> RewriteArticle(doc)]
  /\ pc' = "rewritten"
  /\ UNCHANGED <<cred, calls, syncVars, sendVars, downloadVars>>

RewriteSecond ==
  /\ pc = "rewritten"
  /\ resp' = [status |-> -1, first |-> resp.first,
              second |-> RewriteArticle(resp.first.article)]
  /\ pc' = "done"
  /\ UNCHANGED <<req, cred, calls, syncVars, sendVars, downloadVars>>

SpecRewrite == Init /\ [][RewriteFirst \/ RewriteSecond]_vars

(***************************************************************************)
(* POST /api/kobo/download                                                 *)
(***************************************************************************)
HttpsUrl(host, path, query) ==
  [parses |-> TRUE, scheme |-> "https", host |-> host, path |-> path,
   query |-> query, fragment |-> ""]

\* `url` of the request: a URL whose host gives two site candidates, one
\* whose host gives a single candidate, the empty string (also what a form
\* without the field gives) and a string url.Parse rejects.
DownloadUrls == { HttpsUrl(<<"www", "x", "com">>, <<"a">>, ""),
                  HttpsUrl(<<"x">>, <<"a">>, ""),
                  EmptyURL, BadURL }

\* readeck.Bookmark, restricted to the fields the download handler reads.
BmSame  == [ID |-> "p", URL |-> HttpsUrl(<<"www", "x", "com">>, <<"a">>, "")]
BmBare  == [ID |-> "q", URL |-> HttpsUrl(<<"x", "com">>, <<"a">>, "q")]
BmOther == [ID |-> "r", URL |-> HttpsUrl(<<"x", "com">>, <<"b">>, "")]
BmNoURL == [ID |-> "s", URL |-> EmptyURL]
BmBadURL == [ID |-> "t", URL |-> BadURL]

\* Pages of bookmarks the backend may answer a search with.
Pages == { <<>>, <<BmOther>>, <<BmNoURL, BmBadURL>>,
           <<BmBare>>, <<BmOther, BmSame>>, <<BmBadURL, BmBare>>,
           <<BmSame, BmBare>>, <<BmBare, BmSame>> }

\* Values of the Total-Pages header of a search answer (<<>>: no header).
TotalPagesHeaders == { <<>>, <<"2">>, <<"0">> }

\* Outcomes of a search exchange.
SearchCodes == {TransportFailure, 200, 500}

\* Article documents the backend may answer with.
DownloadArticles == { Document(<<Img("s1")>>),
                      Document(<<Div(<<Img("s1"), Img("s2")>>)>>) }

\* strconv.Atoi returns an error.
AtoiFails(s) ==
  LET signed == s # <<>> /\ Head(s) \in {"-", "+"}
      body   == IF signed THEN Tail(s) ELSE s
  IN  body = <<>> \/ ~AllDigits(body)

\* Variant: one page more than the header says.
GetBookmarksTotalPagesPlusOne(header) ==
  IF AtoiFails(header) THEN 1 ELSE Atoi(header) + 1

\* Client.GetBookmarks: totalPages from the header of a successful answer.
GetBookmarksTotalPages(header) == IF AtoiFails(header) THEN 1 ELSE Atoi(header)

\* Variant: a bookmark whose URL cannot be compared counts as a match.
MatchesOrFails(bookmark, reqURLStr) ==
  /\ bookmark.URL # EmptyURL
  /\ LET c == compareURLs(bookmark.URL, reqURLStr) IN c.err \/ c.match

\* Body of the loop over a page: the bookmark is the one looked for.
Matches(bookmark, reqURLStr) ==
  /\ bookmark.URL # EmptyURL
  /\ LET c == compareURLs(bookmark.URL, reqURLStr) IN ~c.err /\ c.match

\* Variant: the loop over the page does not stop at a match.
LastMatch(bookmarks, reqURLStr) ==
  LET hits == { k \in DOMAIN bookmarks : Matches(bookmarks[k], reqURLStr) }
  IN  IF hits = {} THEN 0 ELSE CHOOSE k \in hits : \A j \in hits : j <= k

\* The loop over a page: index of the bookmark it stops at, 0 without one.
FirstMatch(bookmarks, reqURLStr) ==
  LET hits == { k \in DOMAIN bookmarks : Matches(bookmarks[k], reqURLStr) }
  IN  IF hits = {} THEN 0 ELSE CHOOSE k \in hits : \A j \in hits : k <= j

\* Variant: a failed page fetch ends the whole search.
SiteAfterErrorAbort(s, n) == n + 1

\* The site the search goes on with after a failed page fetch (`break` of
\* the page loop).
SiteAfterError(s, n) == s + 1

\* Entry of the handler up to the search loop.
DownloadReceive ==
  /\ pc = "idle"
  /\ \E shape \in {"ok", "form", "not_post", "bad_form"}, tok \in DeviceTokens,
        u \in DownloadUrls :
       IF shape = "not_post"
       THEN /\ req' = [endpoint |-> "download", shape |-> shape]
            /\ resp' = ErrorResp(405)
            /\ pc' = "done"
            /\ UNCHANGED <<cred, sitesToTry>>
       ELSE IF shape = "bad_form"
       THEN /\ req' = [endpoint |-> "download", shape |-> shape]
            /\ resp' = ErrorResp(400)
            /\ pc' = "done"
            /\ UNCHANGED <<cred, sitesToTry>>
       ELSE /\ req' = [endpoint |-> "download", shape |-> shape,
                       AccessToken |-> tok, URL |-> u]
            /\ LET r == getReadeckToken(tok) IN
               IF ~r.ok
               THEN /\ resp' = ErrorResp(401)
                    /\ pc' = "done"
                    /\ UNCHANGED <<cred, sitesToTry>>
               ELSE /\ cred' = r.token
                    /\ IF u = EmptyURL \/ ParseURL(u).err
                       THEN /\ resp' = ErrorResp(400)
                            /\ pc' = "done"
                            /\ sitesToTry' = sitesToTry
                       ELSE /\ sitesToTry' = getSitesToTry(ParseURL(u).Host)
                            /\ pc' = "download_search"
                            /\ resp' = resp
  /\ site' = 1
  /\ currentPage' = 1
  /\ totalPages' = 1
  /\ bookmarkFound' = NoBookmark
  /\ UNCHANGED <<calls, syncVars, sendVars>>

\* The search goes on with site s, page 1, or ends without a bookmark.
DownloadNextSite(s) ==
  /\ site' = s
  /\ currentPage' = 1
  /\ totalPages' = 1
  /\ bookmarkFound' = bookmarkFound
  /\ IF s > Len(sitesToTry)
     THEN /\ resp' = ErrorResp(404)
          /\ pc' = "done"
     ELSE /\ resp' = resp
          /\ pc' = pc

\* One GetBookmarks call of the search and the scan of its page.
DownloadSearch ==
  /\ pc = "download_search"
  /\ site <= Len(sitesToTry)
  /\ currentPage <= totalPages
  /\ \E code \in SearchCodes :
       \/ /\ doRequest(code).kind # "none"
          /\ calls' = Append(calls,
               [op |-> "GetBookmarks", cred |-> cred, site |-> sitesToTry[site],
                siteIdx |-> site, page |-> currentPage, is_archived |-> FALSE,
                code |-> code, bookmarks |-> <<>>, totalPagesStr |-> <<>>])
          /\ DownloadNextSite(SiteAfterError(site, Len(sitesToTry)))
       \/ /\ doRequest(code).kind = "none"
          /\ \E bookmarks \in Pages, header \in TotalPagesHeaders :
               LET tp == GetBookmarksTotalPages(header)
                   m  == FirstMatch(bookmarks, req.URL)
               IN
               /\ calls' = Append(calls,
                    [op |-> "GetBookmarks", cred |-> cred, site |-> sitesToTry[site],
                     siteIdx |-> site, page |-> currentPage, is_archived |-> FALSE,
                     code |-> code, bookmarks |-> bookmarks,
                     totalPagesStr |-> header])
               /\ IF m # 0
                  THEN /\ bookmarkFound' = bookmarks[m]
                       /\ totalPages' = tp
                       /\ pc' = "download_article"
                       /\ UNCHANGED <<site, currentPage, resp>>
                  ELSE IF currentPage + 1 <= tp
                  THEN /\ currentPage' = currentPage + 1
                       /\ totalPages' = tp
                       /\ UNCHANGED <<site, bookmarkFound, resp, pc>>
                  ELSE DownloadNextSite(site + 1)
  /\ UNCHANGED <<req, cred, sitesToTry, syncVars, sendVars>>

\* GetBookmarkArticle, the rewrite of the article and the response.
DownloadArticle ==
  /\ pc = "download_article"
  /\ \E code \in BackendCodes :
       /\ calls' = Append(calls, [op |-> "GetBookmarkArticle", cred |-> cred,
                                  id |-> bookmarkFound.ID, code |-> code])
       /\ \/ /\ doRequest(code).kind # "none"
             /\ resp' = ErrorResp(500)
          \/ /\ doRequest(code).kind = "none"
             /\ \E doc \in DownloadArticles :
                  LET r == RewriteArticle(doc)
                  IN  resp' = [status |-> 200, article |-> r.article,
                               images |-> r.images]
  /\ pc' = "done"
  /\ UNCHANGED <<req, cred, syncVars, sendVars, downloadVars>>

DownloadNext == DownloadReceive \/ DownloadSearch \/ DownloadArticle

SpecDownload == Init /\ [][DownloadNext]_vars

\* The three endpoints of the device protocol.
Next == SyncNext \/ SendNext \/ DownloadNext

Spec == Init /\ [][Next]_vars

(***************************************************************************)
(* GET /api/convert-image                                                  *)
(***************************************************************************)
\* `url` of the query: absent, empty, or the address of an image.
ImageUrls == {"i1", "i2", "i3"}
ImageUrlParams == ImageUrls \cup {NoField, ""}

\* Outcome of client.Get: 0 stands for an error (no response), any other
\* value is the status of the upstream answer.
ImageCodes == {TransportFailure, 200, 204, 206, 301, 404, 500}

\* What the upstream body holds: an image of a registered format (gif,
\* jpeg, png), of another format, or no image at all.
ImageBodies == {"gif", "jpeg", "png", "webp", "html"}

\* r.URL.Query().Get("url")
QueryGet(v) == IF v = NoField THEN "" ELSE v

\* image.Decode succeeds for the formats the imports register.
Decodes(body) == body \in {"gif", "jpeg", "png"}

\* Variant: a failed conversion is answered with an error status.
returnBadGateway(message) == ErrorResp(502)

\* returnPlaceholderImage: no status is written before the body, so the
\* answer is a 200.
returnPlaceholderImage(message) ==
  [status |-> 200, contentType |-> "image/jpeg",
   cacheControl |-> "public, max-age=300",
   body |-> "placeholder", message |-> message]

\* The answer with the converted image.  When jpeg.Encode fails nothing was
\* written and the error is only logged: the answer keeps status and headers.
ConvertedResp(encoded) ==
  [status |-> 200, contentType |-> "image/jpeg",
   cacheControl |-> "public, max-age=3600",
   body |-> IF encoded THEN "jpeg" ELSE "", message |-> ""]

\* Entry of the handler up to the fetch of the image.
ConvertReceive ==
  /\ pc = "idle"
  /\ \E method \in {"GET", "POST"}, u \in ImageUrlParams :
       /\ req' = [endpoint |-> "convert-image", method |-> method, url |-> u]
       /\ IF method # "GET"
          THEN /\ resp' = ErrorResp(405)
               /\ pc' = "done"
          ELSE IF QueryGet(u) = ""
          THEN /\ resp' = ErrorResp(400)
               /\ pc' = "done"
          ELSE /\ resp' = resp
               /\ pc' = "convert_fetch"
  /\ UNCHANGED <<cred, calls, syncVars, sendVars, downloadVars>>

\* client.Get, the decoding and the answer.
ConvertFetch ==
  /\ pc = "convert_fetch"
  /\ \E code \in ImageCodes :
       \/ /\ code = TransportFailure
          /\ calls' = Append(calls, [op |-> "ImageGet", url |-> QueryGet(req.url),
                                     code |-> code, body |-> ""])
          /\ resp' = returnPlaceholderImage("Image fetch failed")
       \/ /\ code # TransportFailure
          /\ \E body \in ImageBodies, encoded \in BOOLEAN :
               /\ calls' = Append(calls, [op |-> "ImageGet", url |-> QueryGet(req.url),
                                          code |-> code, body |-> body])
               /\ resp' = IF code # 200
                          THEN returnPlaceholderImage("Image not found")
                          ELSE IF ~Decodes(body)
                          THEN returnPlaceholderImage("Image decoding failed")
                          ELSE ConvertedResp(encoded)
  /\ pc' = "done"
  /\ UNCHANGED <<req, cred, syncVars, sendVars, downloadVars>>

SpecImage == Init /\ [][ConvertReceive \/ ConvertFetch]_vars

(***************************************************************************)
(* Client.SyncBookmarksContent: the multipart answer of the batch fetch.   *)
(***************************************************************************)
MaxParts == 2

\* Content-Type of a part, cut after "application/json" when it starts with
\* it: the bare media type, the media type with a parameter, another media
\* type with the same first characters, another media type, no header.
PartContentTypes ==
  { <<"application/json">>, <<"application/json", "; charset=utf-8">>,
    <<"application/json", "-patch+json">>, <<"text/html">>, <<>> }

\* Body of a part: the JSON of a bookmark, or bytes json.Unmarshal rejects.
PartBodies ==
  [decodes : {TRUE}, ID : Ids, IsArchived : BOOLEAN]
  \cup { [decodes |-> FALSE, ID |-> 0, IsArchived |-> FALSE] }

\* A part mr.NextPart cannot read (an error other than io.EOF).
BrokenPart == [broken |-> TRUE, contentType |-> <<>>,
               body |-> [decodes |-> FALSE, ID |-> 0, IsArchived |-> FALSE]]

BatchParts ==
  [broken : {FALSE}, contentType : PartContentTypes, body : PartBodies]
  \cup {BrokenPart}

\* Content-Type of the whole answer: multipart with a boundary, multipart
\* without one, another media type, a header mime.ParseMediaType rejects.
BatchEnvelopes == {"multipart", "no-boundary", "not-multipart", "bad-header"}

\* strings.HasPrefix(partContentType, "application/json")
HasPrefixJSON(contentType) ==
  Len(contentType) >= 1 /\ contentType[1] = "application/json"

\* The loop of parseMultipartBookmarkResponse over the parts.
RECURSIVE ParseParts(_, _)
ParseParts(parts, bookmarks) ==
  IF parts = <<>> THEN [err |-> FALSE, bookmarks |-> bookmarks]
  ELSE LET p == Head(parts) IN
       IF p.broken THEN [err |-> TRUE, bookmarks |-> <<>>]
       ELSE IF HasPrefixJSON(p.contentType) /\ p.body.decodes
       THEN ParseParts(Tail(parts),
                       Append(bookmarks, [ID |-> p.body.ID,
                                          IsArchived |-> p.body.IsArchived,
                                          IsMarked |-> FALSE]))
       ELSE ParseParts(Tail(parts), bookmarks)

\* parseMultipartBookmarkResponse
parseMultipartBookmarkResponse(envelope, parts) ==
  IF envelope # "multipart" THEN [err |-> TRUE, bookmarks |-> <<>>]
  ELSE ParseParts(parts, <<>>)

\* bookmarkMap[bookmarks[i].ID] = &bookmarks[i], in order.
RECURSIVE BookmarkMap(_, _)
BookmarkMap(bookmarks, m) ==
  IF bookmarks = <<>> THEN m
  ELSE BookmarkMap(Tail(bookmarks), MapPut(m, Head(bookmarks).ID, Head(bookmarks)))

\* Client.SyncBookmarksContent for a non-empty list of ids.
SyncBookmarksContent(code, envelope, parts) ==
  IF doRequest(code).kind # "none" THEN [err |-> TRUE, bookmarkMap |-> EmptyMap]
  ELSE LET r == parseMultipartBookmarkResponse(envelope, parts)
       IN  IF r.err THEN [err |-> TRUE, bookmarkMap |-> EmptyMap]
           ELSE [err |-> FALSE, bookmarkMap |-> BookmarkMap(r.bookmarks, EmptyMap)]

\* SyncBookmarksContent applied to one answer of the backend.
BatchApply ==
  /\ pc = "idle"
  /\ \E code \in {TransportFailure, 200, 500}, envelope \in BatchEnvelopes,
        parts \in SeqsUpTo(BatchParts, MaxParts) :
       /\ doRequest(code).kind # "none" => (envelope = "multipart" /\ parts = <<>>)
       /\ req' = [endpoint |-> "SyncBookmarksContent", code |-> code,
                  envelope |-> envelope, parts |-> parts]
       /\ resp' = [status |-> -1,
                   value |-> SyncBookmarksContent(code, envelope, parts)]
  /\ pc' = "done"
  /\ UNCHANGED <<cred, calls, syncVars, sendVars, downloadVars>>

SpecBatch == Init /\ [][BatchApply]_vars

(***************************************************************************)
(* Requests served concurrently.  net/http runs every handler in a         *)
(* goroutine of its own; here pc, req, cred and resp hold one value per    *)
(* goroutine and calls is the log of the backend, which sees the calls of  *)
(* all of them interleaved.  What a handler does with the answers is left  *)
(* open: it makes any calls of the client methods its endpoint uses, up to *)
(* MaxCalls of them, and then answers.                                     *)
(***************************************************************************)
Goroutines == 1..2

\* Most backend calls of one request.
MaxCalls == 2

\* Device tokens of concurrent requests: both users and a token of no user.
ServeTokens == { Users[u].Token : u \in DOMAIN Users } \cup {"bad"}

\* The client methods a handler calls.
ClientMethods(endpoint) ==
  CASE endpoint = "get"      -> {"GetBookmarksSync", "SyncBookmarksContent"}
    [] endpoint = "send"     -> {"UpdateBookmark", "CreateBookmark"}
    [] endpoint = "download" -> {"GetBookmarks", "GetBookmarkArticle"}

\* readeck.NewClient: the client keeps the token it was built with.
NewClient(accessToken) == [AccessToken |-> accessToken]

\* Variant: every request carries the credential of the first user.
BearerOfFirstUser(c) == <<"Bearer", Users[1].ReadeckAccessToken>>

\* `req.Header.Set("Authorization", "Bearer "+c.AccessToken)`
Bearer(c) == <<"Bearer", c.AccessToken>>

InitServe ==
  /\ pc = [g \in Goroutines |-> "idle"]
  /\ req = [g \in Goroutines |-> NoReq]
  /\ cred = [g \in Goroutines |-> NewClient("")]
  /\ calls = <<>>
  /\ bsyncs = <<>>
  /\ details = EmptyMap
  /\ resultList = EmptyMap
  /\ i = 1
  /\ actionResults = <<>>
  /\ allSucceeded = TRUE
  /\ sitesToTry = <<>>
  /\ site = 1
  /\ currentPage = 1
  /\ totalPages = 1
  /\ bookmarkFound = NoBookmark
  /\ resp = [g \in Goroutines |-> NoResp]

\* Entry of a handler: the token lookup and the client of the request.
ServeReceive(g) ==
  /\ pc[g] = "idle"
  /\ \E endpoint \in {"get", "send", "download"}, tok \in ServeTokens :
       /\ req' = [req EXCEPT ![g] = [endpoint |-> endpoint, AccessToken |-> tok]]
       /\ LET r == getReadeckToken(tok) IN
          IF ~r.ok
          THEN /\ resp' = [resp EXCEPT ![g] = ErrorResp(401)]
               /\ pc' = [pc EXCEPT ![g] = "done"]
               /\ cred' = cred
          ELSE /\ cred' = [cred EXCEPT ![g] = NewClient(r.token)]
               /\ pc' = [pc EXCEPT ![g] = "serving"]
               /\ resp' = resp
  /\ UNCHANGED <<calls, syncVars, sendVars, downloadVars>>

\* One request of the handler's client to the backend.
ServeCall(g) ==
  /\ pc[g] = "serving"
  /\ Cardinality({ k \in DOMAIN calls : calls[k].g = g }) < MaxCalls
  /\ \E op \in ClientMethods(req[g].endpoint) :
       calls' = Append(calls, [g |-> g, op |-> op,
                               Authorization |-> Bearer(cred[g])])
  /\ UNCHANGED <<pc, req, cred, resp, syncVars, sendVars, downloadVars>>

\* The handler writes its response.
ServeRespond(g) ==
  /\ pc[g] = "serving"
  /\ \E status \in {200, 404, 500} :
       resp' = [resp EXCEPT ![g] = [status |-> status]]
  /\ pc' = [pc EXCEPT ![g] = "done"]
  /\ UNCHANGED <<req, cred, calls, syncVars, sendVars, downloadVars>>

SpecServe ==
  InitServe /\ [][\E g \in Goroutines :
                    ServeReceive(g) \/ ServeCall(g) \/ ServeRespond(g)]_vars

(***************************************************************************)
(* Properties of POST /api/kobo/get (SpecSync).                            *)
(***************************************************************************)
SyncAnswered200 == pc = "done" /\ req.endpoint = "get" /\ resp.status = 200

\* The sync the backend was asked for: full (no since) or incremental.
FullSync200 == SyncAnswered200 /\ SinceParam(req.Since) = "nil"
IncrementalSync200 == SyncAnswered200 /\ SinceParam(req.Since) = "ts"

\* Ids of the Full (status "0") entries of a list.
FullIds(list) == { id \in DOMAIN list : list[id].status = "0" }

\* An update event whose detail was found by the batch fetch.
FoundUpdate(ev) == ev.Type = "update" /\ ev.ID \in DOMAIN details

\* Eligible: found and not archived.
Eligible(ev) == FoundUpdate(ev) /\ ~details[ev.ID].IsArchived

\* The feed-ordered sequence of eligible events.
EligibleSeq == SelectSeq(bsyncs, Eligible)

EligiblePositions == { k \in DOMAIN bsyncs : Eligible(bsyncs[k]) }

EligibleIdsDistinct ==
  \A k1, k2 \in EligiblePositions : bsyncs[k1].ID = bsyncs[k2].ID => k1 = k2

\* C1: in every sync answered with 200, no bookmark whose batch-fetched
\* detail is archived appears in `list` as a Full item (status "0").
C1_NoArchivedFull ==
  SyncAnswered200 =>
    \A id \in DOMAIN details :
      details[id].IsArchived =>
        ~(id \in DOMAIN resp.list /\ resp.list[id].status = "0")

\* C1 witness: a 200 answer for a feed with an archived update and a listed one.
C1_Witness ==
  /\ SyncAnswered200
  /\ \E k \in DOMAIN bsyncs : FoundUpdate(bsyncs[k]) /\ details[bsyncs[k].ID].IsArchived
  /\ FullIds(resp.list) # {}

\* C2: in every sync answered with 200, `total` is the number of update
\* events whose id is in the batch-fetch result with isArchived=false; the
\* value does not depend on offset and count.
C2_TotalCountsEligible ==
  SyncAnswered200 => resp.total = Cardinality(EligiblePositions)

\* C2 witness: a 200 answer whose window holds fewer items than `total`,
\* for a feed that also has an archived update.
C2_Witness ==
  /\ SyncAnswered200
  /\ resp.total >= 1
  /\ Cardinality(FullIds(resp.list)) < resp.total
  /\ Atoi(req.Count) > 0
  /\ \E k \in DOMAIN bsyncs : FoundUpdate(bsyncs[k]) /\ details[bsyncs[k].ID].IsArchived

\* C3 as stated: in every full sync answered with 200, `total` equals the
\* number of Full entries of `list`, for every offset and count.
C3_TotalEqualsFullEntries ==
  FullSync200 => resp.total = Cardinality(FullIds(resp.list))

\* C3 amended: in every full sync answered with 200 the number of Full
\* entries of `list` is at most `total`; the two are equal when the window
\* covers every eligible item (offset 0 and count 0 or count >= total) and
\* no two eligible update events share an id.
C3_TotalBoundsFullEntries ==
  FullSync200 =>
    /\ Cardinality(FullIds(resp.list)) <= resp.total
    /\ ( /\ Atoi(req.Offset) = 0
         /\ (Atoi(req.Count) = 0 \/ Atoi(req.Count) >= resp.total)
         /\ EligibleIdsDistinct )
       => resp.total = Cardinality(FullIds(resp.list))

\* C3 witness: a full sync without window that lists two items, total 2.
C3_Witness ==
  /\ FullSync200
  /\ Atoi(req.Offset) = 0
  /\ Atoi(req.Count) = 0
  /\ resp.total = 2
  /\ Cardinality(FullIds(resp.list)) = 2

\* C4: in every incremental sync answered with 200, each delete event of
\* the feed has exactly one entry of `list`, keyed by its id, of the form
\* (item_id, status "2"), also when the id occurs in another event of the
\* feed; delete events add nothing to `total`.
C4_DeleteEntries ==
  IncrementalSync200 =>
    /\ \A k \in DOMAIN bsyncs :
         bsyncs[k].Type = "delete" =>
           /\ bsyncs[k].ID \in DOMAIN resp.list
           /\ resp.list[bsyncs[k].ID].item_id = bsyncs[k].ID
           /\ resp.list[bsyncs[k].ID].status = "2"
    /\ resp.total = Cardinality(EligiblePositions)

\* C5: in every incremental sync answered with 200, an update event whose
\* detail is archived has an entry with status "1" in `list` and is not
\* counted in `total`; an update event whose detail is not archived has a
\* Full entry (stated for requests that ask for no window).
C5_ArchivedStatusOnly ==
  IncrementalSync200 =>
    /\ \A k \in DOMAIN bsyncs :
         (FoundUpdate(bsyncs[k]) /\ details[bsyncs[k].ID].IsArchived) =>
           /\ bsyncs[k].ID \in DOMAIN resp.list
           /\ resp.list[bsyncs[k].ID].status = "1"
    /\ resp.total = Cardinality(EligiblePositions)
    /\ (Atoi(req.Offset) = 0 /\ Atoi(req.Count) = 0) =>
         \A k \in EligiblePositions : bsyncs[k].ID \in FullIds(resp.list)

\* C6 as stated: in every sync with count > 0 answered with 200, `list`
\* has at most count Full items and none of the first `offset` items of the
\* feed-ordered sequence of non-archived items is returned.
C6_WindowByItem ==
  (SyncAnswered200 /\ Atoi(req.Count) > 0) =>
    /\ Cardinality(FullIds(resp.list)) <= Atoi(req.Count)
    /\ \A k \in DOMAIN EligibleSeq :
         k <= Atoi(req.Offset) => EligibleSeq[k].ID \notin FullIds(resp.list)

\* C6 amended: in every sync with count > 0 answered with 200, `list` has
\* at most count Full items and every Full item stands at a position after
\* the first `offset` positions of the feed-ordered sequence of
\* non-archived items (an id that occurs again at such a position is
\* returned although it also occurs among the first `offset` items).
C6_WindowByPosition ==
  (SyncAnswered200 /\ Atoi(req.Count) > 0) =>
    /\ Cardinality(FullIds(resp.list)) <= Atoi(req.Count)
    /\ \A id \in FullIds(resp.list) :
         \E k \in DOMAIN EligibleSeq :
           k > Atoi(req.Offset) /\ EligibleSeq[k].ID = id

\* C6 witness: offset 1 and count 1 over two eligible items with distinct
\* ids: the second one is returned, the first one is not.
C6_Witness ==
  /\ SyncAnswered200
  /\ Atoi(req.Count) = 1
  /\ Atoi(req.Offset) = 1
  /\ Len(EligibleSeq) = 2
  /\ EligibleIdsDistinct
  /\ FullIds(resp.list) = {EligibleSeq[2].ID}

\* C7: every Full item returned by sync has favorite "1" exactly when its
\* bookmark detail has isMarked=true, and favorite "0" otherwise.
C7_FavoriteFollowsIsMarked ==
  SyncAnswered200 =>
    \A id \in FullIds(resp.list) :
      resp.list[id].favorite = IF details[id].IsMarked THEN "1" ELSE "0"

(***************************************************************************)
(* Properties of POST /api/kobo/send (SpecSend).                           *)
(***************************************************************************)
\* The handler finished a send request that passed authentication.
SendAuthenticatedDone ==
  /\ pc = "done"
  /\ req.endpoint = "send"
  /\ req.shape = "ok"
  /\ \E u \in DOMAIN Users : Users[u].Token = req.AccessToken

\* The backend calls made for the action at index k.
CallsOf(k) == { c \in DOMAIN calls : calls[c].idx = k }

Is2xx(code) == 200 <= code /\ code < 300

\* The action at index k is an object whose action string selects a
\* backend call.
CallsBackend(a) == a.isObject /\ a.action \in UpdateActions \cup {"add"}

\* The result the action at index k has on its own: decided by the action
\* and by the backend's answer to its own call.
OwnResult(k) ==
  LET a == req.Actions[k] IN
  IF ~a.isObject THEN FALSE
  ELSE IF a.action \in NoopActions THEN TRUE
  ELSE IF a.action \in UpdateActions
       THEN \E c \in CallsOf(k) : Is2xx(calls[c].code) \/ calls[c].code = 404
  ELSE IF a.action = "add"
       THEN \E c \in CallsOf(k) : Is2xx(calls[c].code)
  ELSE FALSE

\* C8: for every send request that passes authentication, action_results
\* holds one boolean per input action at the index of its action (false for
\* an element that is not an object or has no known action string), and
\* `status` is true exactly when every element of action_results is true.
C8_ResultsPerAction ==
  SendAuthenticatedDone =>
    /\ Len(resp.action_results) = Len(req.Actions)
    /\ resp.json_status = (\A k \in DOMAIN resp.action_results : resp.action_results[k])
    /\ \A k \in DOMAIN req.Actions :
         resp.action_results[k] =>
           /\ req.Actions[k].isObject
           /\ req.Actions[k].action \in UpdateActions \cup NoopActions \cup {"add"}

\* C8 witness: two actions, the first failed and the second succeeded.
C8_Witness ==
  /\ SendAuthenticatedDone
  /\ Len(req.Actions) = 2
  /\ resp.action_results = <<FALSE, TRUE>>
  /\ resp.json_status = FALSE

\* C9: in an authenticated send, a failed action (unknown action string,
\* element that is not an object, backend error) makes only its own result
\* false: every action that selects a backend call gets exactly one call,
\* also after a failure, every result is the one its action has on its own,
\* and the HTTP status is 200.
C9_FailuresAreLocal ==
  SendAuthenticatedDone =>
    /\ resp.status = 200
    /\ \A k \in DOMAIN req.Actions :
         /\ Cardinality(CallsOf(k)) = IF CallsBackend(req.Actions[k]) THEN 1 ELSE 0
         /\ resp.action_results[k] = OwnResult(k)

\* C9 witness: the first action failed, the second was still sent to the
\* backend and succeeded.
C9_Witness ==
  /\ SendAuthenticatedDone
  /\ Len(req.Actions) = 2
  /\ ~resp.action_results[1]
  /\ CallsBackend(req.Actions[2])
  /\ CallsOf(2) # {}
  /\ resp.action_results[2]

\* C10: UpdateBookmark returns success when the backend answers 404 and an
\* error for every other non-2xx status and for a transport failure; a send
\* action archive/readd/favorite/unfavorite/delete answered 404 gets result
\* true.
C10_NotFoundIsSuccess ==
  /\ \A c \in DOMAIN calls :
       calls[c].op = "UpdateBookmark" =>
         /\ calls[c].code = 404 => calls[c].err = "none"
         /\ (calls[c].code # 404 /\ ~Is2xx(calls[c].code)) => calls[c].err # "none"
  /\ SendAuthenticatedDone =>
       \A c \in DOMAIN calls :
         (calls[c].op = "UpdateBookmark" /\ calls[c].code = 404) =>
           resp.action_results[calls[c].idx]

\* C10 witness: an update answered 404 whose action got result true, next
\* to an update answered 500 whose action got result false.
C10_Witness ==
  /\ SendAuthenticatedDone
  /\ \E c1, c2 \in DOMAIN calls :
       /\ calls[c1].op = "UpdateBookmark" /\ calls[c1].code = 404
       /\ resp.action_results[calls[c1].idx]
       /\ calls[c2].op = "UpdateBookmark" /\ calls[c2].code = 500
       /\ ~resp.action_results[calls[c2].idx]

(***************************************************************************)
(* Properties of the three endpoints together (Spec).                      *)
(***************************************************************************)
\* The request was decoded and its accessToken is the token of no user.
UnknownToken ==
  /\ req.endpoint \in {"get", "send", "download"}
  /\ req.shape \in {"ok", "form"}
  /\ \A k \in DOMAIN Users : Users[k].Token # req.AccessToken

\* C11: on sync, download and send alike, a request whose accessToken is the
\* token of no configured user is answered 401, and no backend call is made
\* at any point while it is served.
C11_UnknownTokenIs401 ==
  UnknownToken => /\ pc = "done"
                  /\ resp.status = 401
                  /\ calls = <<>>

C11_Witness ==
  /\ UnknownToken
  /\ req.endpoint = "download"
  /\ req.URL \notin {EmptyURL, BadURL}
  /\ resp.status = 401

(***************************************************************************)
(* Properties of POST /api/kobo/download (SpecDownload).                   *)
(***************************************************************************)
\* The request passed decoding, authentication and the checks of `url`.
DownloadSearched ==
  /\ req.endpoint = "download"
  /\ req.shape \in {"ok", "form"}
  /\ cred # ""
  /\ req.URL # EmptyURL
  /\ ~ParseURL(req.URL).err

IsSearch(k) == calls[k].op = "GetBookmarks"
SearchFailed(k) == IsSearch(k) /\ ~Is2xx(calls[k].code)

\* Positions of a fetched page whose bookmark has the URL asked for.
Agreeing(bookmarks) ==
  { j \in DOMAIN bookmarks : /\ bookmarks[j].URL # EmptyURL
                             /\ compareURLs(bookmarks[j].URL, req.URL).match }

\* C12: when no bookmark on any page fetched for any site candidate matches
\* the requested URL, the download is answered 404, and neither an article
\* fetch nor a create-bookmark call is issued.
C12_NoMatchIs404 ==
  (DownloadSearched /\ \A k \in DOMAIN calls :
                         IsSearch(k) => Agreeing(calls[k].bookmarks) = {})
  => /\ \A k \in DOMAIN calls : IsSearch(k)
     /\ pc = "done" => resp.status = 404

C12_Witness ==
  /\ DownloadSearched
  /\ pc = "done"
  /\ resp.status = 404
  /\ Len(calls) >= 3
  /\ \E k \in DOMAIN calls : calls[k].bookmarks = <<BmNoURL, BmBadURL>>
  /\ \E k \in DOMAIN calls : calls[k].bookmarks = <<BmOther>>

\* C13: a failed page fetch for one site candidate ends the page loop of that
\* candidate only: the next candidate, if there is one, is searched from its
\* page 1; the failure alone never gives an error response (500 is answered
\* only for a failed article fetch), and a bookmark matched under a later
\* candidate is returned with 200.
C13_PageErrorSkipsSite ==
  DownloadSearched =>
    /\ \A k \in DOMAIN calls :
         SearchFailed(k) =>
           /\ \A j \in DOMAIN calls :
                (j > k /\ IsSearch(j)) => calls[j].siteIdx > calls[k].siteIdx
           /\ calls[k].siteIdx < Len(sitesToTry) =>
                IF k < Len(calls)
                THEN /\ IsSearch(k + 1)
                     /\ calls[k + 1].siteIdx = calls[k].siteIdx + 1
                     /\ calls[k + 1].page = 1
                ELSE /\ pc = "download_search"
                     /\ site = calls[k].siteIdx + 1
                     /\ currentPage = 1
    /\ pc = "done" =>
         /\ resp.status \in {200, 404, 500}
         /\ resp.status = 500 <=>
              /\ calls[Len(calls)].op = "GetBookmarkArticle"
              /\ ~Is2xx(calls[Len(calls)].code)
         /\ resp.status = 200 <=>
              /\ calls[Len(calls)].op = "GetBookmarkArticle"
              /\ Is2xx(calls[Len(calls)].code)

C13_Witness ==
  /\ DownloadSearched
  /\ pc = "done"
  /\ resp.status = 200
  /\ Len(calls) = 3
  /\ SearchFailed(1)
  /\ calls[1].siteIdx = 1
  /\ IsSearch(2) /\ calls[2].siteIdx = 2 /\ calls[2].page = 1
  /\ Agreeing(calls[2].bookmarks) # {}

\* (site candidate, page) of search call j comes before that of call k.
SearchBefore(j, k) ==
  \/ calls[j].siteIdx < calls[k].siteIdx
  \/ calls[j].siteIdx = calls[k].siteIdx /\ calls[j].page < calls[k].page

\* C14: the bookmark whose article is fetched is the first matching bookmark
\* in the order (site candidate, page number, position within the page), and
\* once a match is found no further search call is made.
C14_FirstMatchWins ==
  DownloadSearched =>
    /\ \A j, k \in DOMAIN calls :
         (j < k /\ IsSearch(j) /\ IsSearch(k)) => SearchBefore(j, k)
    /\ \A k \in DOMAIN calls :
         (IsSearch(k) /\ Agreeing(calls[k].bookmarks) # {}) =>
           IF k < Len(calls)
           THEN /\ k + 1 = Len(calls)
                /\ calls[k + 1].op = "GetBookmarkArticle"
                /\ \E m \in Agreeing(calls[k].bookmarks) :
                     /\ \A j \in Agreeing(calls[k].bookmarks) : m <= j
                     /\ calls[k + 1].id = calls[k].bookmarks[m].ID
           ELSE pc = "download_article"
    /\ \A k \in DOMAIN calls :
         calls[k].op = "GetBookmarkArticle" =>
           /\ k > 1
           /\ IsSearch(k - 1)
           /\ Agreeing(calls[k - 1].bookmarks) # {}

C14_Witness ==
  /\ DownloadSearched
  /\ pc = "done"
  /\ resp.status = 200
  /\ Len(calls) = 4
  /\ calls[3].bookmarks = <<BmSame, BmBare>>
  /\ calls[3].siteIdx = 2
  /\ calls[3].page = 2
  /\ calls[4].id = "p"

(***************************************************************************)
(* Properties of getSitesToTry (SpecSites) and compareURLs (SpecUrls).     *)
(***************************************************************************)
SitesDone == pc = "done" /\ req.endpoint = "getSitesToTry"

\* C15: getSitesToTry returns a list without duplicates whose first element
\* is the full host; a second element is there only when the host has at
\* least two dot-separated labels, and is then the second-level label (it is
\* there whenever that label is not empty); there are never more than two
\* elements.
C15_SiteCandidates ==
  SitesDone =>
    LET host  == req.host
        sites == resp.value
        n     == Len(host)
    IN  /\ Len(sites) \in {1, 2}
        /\ sites[1] = host
        /\ \A j, k \in DOMAIN sites : j # k => sites[j] # sites[k]
        /\ Len(sites) = 2 => (n >= 2 /\ sites[2] = <<host[n - 1]>>)
        /\ (n >= 2 /\ host[n - 1] # "") => Len(sites) = 2

C15_Witness ==
  /\ SitesDone
  /\ req.host = <<"www", "x", "com">>
  /\ resp.value = << <<"www", "x", "com">>, <<"x">> >>

CompareDone == pc = "done" /\ req.endpoint = "compareURLs"

\* C16: compareURLs(a, b) is true exactly when both strings parse and, after
\* a leading "www." is removed from each host, scheme, host and path are
\* identical; query and fragment never change the result; a trailing slash
\* makes the paths differ; the comparison is symmetric.
C16_CompareURLs ==
  CompareDone =>
    LET a == req.url1
        b == req.url2
        r == resp.value.match
    IN  /\ r <=> /\ a.parses /\ b.parses
                 /\ a.scheme = b.scheme
                 /\ TrimPrefixWww(a.host) = TrimPrefixWww(b.host)
                 /\ a.path = b.path
        /\ \A q \in {"", "q"}, f \in {"", "f"} :
             compareURLs([a EXCEPT !.query = q, !.fragment = f], b).match = r
        /\ (a.path = Append(b.path, "") \/ b.path = Append(a.path, "")) => ~r
        /\ compareURLs(b, a).match = r

C16_Witness ==
  /\ CompareDone
  /\ resp.value.match
  /\ req.url1.host = <<"www", "x", "com">>
  /\ req.url2.host = <<"x", "com">>
  /\ req.url1.query # req.url2.query
  /\ req.url1.fragment # req.url2.fragment

(***************************************************************************)
(* Properties of the article rewrite (SpecRewrite).                        *)
(***************************************************************************)
\* Number of nodes of a tree that are img elements / IMG_<k> comments.
IsImg(n) == n.type = "element" /\ n.data = "img"
IsMarker(n) == n.type = "comment" /\ Len(n.data) = 2 /\ n.data[1] = "IMG_"

RECURSIVE CountImg(_), CountImgIn(_)
CountImg(n) == (IF IsImg(n) THEN 1 ELSE 0) + CountImgIn(n.children)
CountImgIn(children) ==
  IF children = <<>> THEN 0
  ELSE CountImg(Head(children)) + CountImgIn(Tail(children))

RECURSIVE CountMarkers(_), CountMarkersIn(_)
CountMarkers(n) == (IF IsMarker(n) THEN 1 ELSE 0) + CountMarkersIn(n.children)
CountMarkersIn(children) ==
  IF children = <<>> THEN 0
  ELSE CountMarkers(Head(children)) + CountMarkersIn(Tail(children))

Rewritten == req.endpoint = "rewrite" /\ pc \in {"rewritten", "done"}

\* C17: for every article tree with N img elements, wherever they sit, the
\* rewritten article holds exactly N IMG_<ordinal> markers and no img
\* element, and the image map has exactly N entries.
C17_EveryImageReplaced ==
  Rewritten =>
    LET N == CountImg(req.doc) IN
    /\ CountMarkers(resp.first.article) = N
    /\ CountImg(resp.first.article) = 0
    /\ Cardinality(DOMAIN resp.first.images) = N

\* C18: the rewrite applied to the output of a first rewrite replaces no
\* element, returns an empty image map and leaves the tree as it was.
C18_SecondPassIsNoOp ==
  (req.endpoint = "rewrite" /\ pc = "done") =>
    /\ resp.second.images = EmptyMap
    /\ resp.second.article = resp.first.article

(***************************************************************************)
(* Properties of GET /api/convert-image (SpecImage).                       *)
(***************************************************************************)
ConvertGet == req.endpoint = "convert-image" /\ req.method = "GET"

\* C19: a GET to convert-image with a non-empty `url` is answered 200 with
\* content type image/jpeg on every path (fetch error, upstream status other
\* than success, undecodable body, success); 400 is answered only when `url`
\* is absent or empty, and then no fetch is attempted.
C19_AlwaysAnImage ==
  ConvertGet =>
    /\ (pc = "done" /\ QueryGet(req.url) # "") =>
         /\ resp.status = 200
         /\ resp.contentType = "image/jpeg"
         /\ Len(calls) = 1
         /\ calls[1].url = req.url
    /\ QueryGet(req.url) = "" =>
         /\ pc = "done"
         /\ resp.status = 400
         /\ calls = <<>>
    /\ pc # "done" => calls = <<>>

C19_Witness ==
  /\ ConvertGet
  /\ pc = "done"
  /\ req.url = "i1"
  /\ calls[1].code = 404
  /\ resp.status = 200
  /\ resp.body = "placeholder"

(***************************************************************************)
(* Properties of POST /api/kobo/get: ids the batch result lacks (SpecSync).*)
(***************************************************************************)
\* The batch result was obtained and the handler ran to its end.
BatchFetched == pc = "done" /\ req.endpoint = "get" /\ resp.status \in {200, 0}

\* An update event whose id the batch result lacks.
AbsentUpdate(ev) == ev.Type = "update" /\ ev.ID \notin DOMAIN details
PresentEvent(ev) == ~AbsentUpdate(ev)

\* The answer of the handler to the same request and batch result for the
\* feed evs.
SyncResponseFor(evs) ==
  LET r == ProcessEvents(evs, details, <<>>, 0)
      n == Len(r.actualBookmarks)
      s == StartIndex(Atoi(req.Offset), Atoi(req.Count), n)
      e == EndIndex(Atoi(req.Offset), Atoi(req.Count), n)
  IN  IF ~SliceInRange(s, e, n) THEN PanicResp
      ELSE [status |-> 200,
            list |-> PutAll(CollectDeletes(evs, EmptyMap),
                            Window(r.actualBookmarks, s, e)),
            total |-> r.total]

\* C20 as stated: an update event whose id is absent from the batch result is
\* dropped silently: the answer is the one the feed without the event gets
\* (so still 200), the id is not a key of `list`, and the event is not
\* counted in `total`.
C20_AbsentIdNotAKey ==
  BatchFetched =>
    /\ resp = SyncResponseFor(SelectSeq(bsyncs, PresentEvent))
    /\ resp.status = 200 =>
         /\ resp.total = Cardinality(EligiblePositions)
         /\ \A k \in DOMAIN bsyncs :
              AbsentUpdate(bsyncs[k]) => bsyncs[k].ID \notin DOMAIN resp.list

\* C20 amended: the answer is the one the feed without the event gets, the
\* event is not counted in `total`, and its id is a key of `list` only when
\* a delete event of the feed has the same id, the entry then being the
\* status "2" entry of that delete event.
C20_AbsentUpdateAddsNothing ==
  BatchFetched =>
    /\ resp = SyncResponseFor(SelectSeq(bsyncs, PresentEvent))
    /\ resp.status = 200 =>
         /\ resp.total = Cardinality(EligiblePositions)
         /\ \A k \in DOMAIN bsyncs :
              (AbsentUpdate(bsyncs[k]) /\ bsyncs[k].ID \in DOMAIN resp.list) =>
                /\ resp.list[bsyncs[k].ID] = DeletedEntry(bsyncs[k].ID)
                /\ \E j \in DOMAIN bsyncs :
                     bsyncs[j].Type = "delete" /\ bsyncs[j].ID = bsyncs[k].ID

C20_Witness ==
  /\ SyncAnswered200
  /\ resp.total = 1
  /\ \E j, k \in DOMAIN bsyncs :
       /\ AbsentUpdate(bsyncs[j])
       /\ bsyncs[j].ID \notin DOMAIN resp.list
       /\ Eligible(bsyncs[k])
       /\ bsyncs[k].ID \in FullIds(resp.list)

(***************************************************************************)
(* Properties of POST /api/kobo/send: translation of actions (SpecSend).   *)
(***************************************************************************)
\* The action is an object whose fields have the types its action asks for.
WellFormedUpdate(a) ==
  a.isObject /\ a.action \in UpdateActions /\ a.item_id \in ItemIds
WellFormedAdd(a) == a.isObject /\ a.action = "add" /\ a.url \in Urls

\* The update the protocol asks for an action string.
ExpectedUpdate(action) ==
  CASE action = "archive"    -> <<"is_archived", TRUE>>
    [] action = "readd"      -> <<"is_archived", FALSE>>
    [] action = "favorite"   -> <<"is_marked", TRUE>>
    [] action = "unfavorite" -> <<"is_marked", FALSE>>
    [] action = "delete"     -> <<"is_deleted", TRUE>>

\* C21: send translates each well-formed action into exactly one backend
\* call: archive/readd into update(id, is_archived = true/false),
\* favorite/unfavorite into update(id, is_marked = true/false), delete into
\* update(id, is_deleted = true), add into create(url); opened_item and
\* left_item get result true with no backend call.
C21_ActionTranslation ==
  SendAuthenticatedDone =>
    \A k \in DOMAIN req.Actions :
      LET a == req.Actions[k] IN
      /\ WellFormedUpdate(a) =>
           /\ Cardinality(CallsOf(k)) = 1
           /\ \A c \in CallsOf(k) :
                /\ calls[c].op = "UpdateBookmark"
                /\ calls[c].id = a.item_id
                /\ <<calls[c].field, calls[c].value>> = ExpectedUpdate(a.action)
      /\ WellFormedAdd(a) =>
           /\ Cardinality(CallsOf(k)) = 1
           /\ \A c \in CallsOf(k) :
                calls[c].op = "CreateBookmark" /\ calls[c].url = a.url
      /\ (a.isObject /\ a.action \in NoopActions) =>
           /\ CallsOf(k) = {}
           /\ resp.action_results[k]

C21_Witness ==
  /\ SendAuthenticatedDone
  /\ Len(req.Actions) = 2
  /\ WellFormedUpdate(req.Actions[1])
  /\ req.Actions[1].action = "readd"
  /\ WellFormedAdd(req.Actions[2])
  /\ Len(calls) = 2
  /\ calls[1].field = "is_archived" /\ calls[1].value = FALSE
  /\ calls[2].op = "CreateBookmark"

\* C30: every update call of send targets a non-empty bookmark id and every
\* create call carries a non-empty url: an update action whose item_id is
\* missing or not a string, or an add action whose url is missing or not a
\* string, issues no backend call and gets result false.
C30_NoCallWithoutTarget ==
  /\ \A c \in DOMAIN calls :
       /\ calls[c].op = "UpdateBookmark" => calls[c].id # ""
       /\ calls[c].op = "CreateBookmark" => calls[c].url # ""
  /\ SendAuthenticatedDone =>
       \A k \in DOMAIN req.Actions :
         LET a == req.Actions[k] IN
         (CallsBackend(a) /\ ~WellFormedUpdate(a) /\ ~WellFormedAdd(a)) =>
           /\ CallsOf(k) = {}
           /\ ~resp.action_results[k]

(***************************************************************************)
(* Properties of the batch detail fetch (SpecBatch).                       *)
(***************************************************************************)
\* The backend answered 2xx with a well-formed multipart body.
BatchAnswered ==
  /\ pc = "done"
  /\ req.endpoint = "SyncBookmarksContent"
  /\ Is2xx(req.code)
  /\ req.envelope = "multipart"
  /\ \A k \in DOMAIN req.parts : ~req.parts[k].broken

\* The media type of the part is application/json.
IsJSONPart(p) ==
  p.contentType \in { <<"application/json">>,
                      <<"application/json", "; charset=utf-8">> }

\* C22: the mapping returned by the batch detail fetch contains exactly the
\* ids of the parts whose content type is application/json and whose body
\* decodes as a bookmark, whatever the order of the parts; a part with
\* another content type or an undecodable body is skipped and never makes
\* the call fail.
C22_ExactlyJSONParts ==
  BatchAnswered =>
    /\ ~resp.value.err
    /\ DOMAIN resp.value.bookmarkMap =
         { req.parts[k].body.ID :
             k \in { j \in DOMAIN req.parts :
                       IsJSONPart(req.parts[j]) /\ req.parts[j].body.decodes } }

(***************************************************************************)
(* Properties of POST /api/kobo/get: backend failures (SpecSync).          *)
(***************************************************************************)
SyncCallFailed(k) == ~Is2xx(calls[k].code)

\* C23: if the change-feed call or the batch-detail call of a sync fails
\* (transport error or non-2xx status), the sync is answered 500 with no
\* `list` and no `total`; the delete entries collected before a failing
\* batch-detail call are not sent.
C23_BackendFailureIs500 ==
  (req.endpoint = "get" /\ \E k \in DOMAIN calls : SyncCallFailed(k)) =>
    /\ pc = "done"
    /\ SyncCallFailed(Len(calls))
    /\ resp.status = 500
    /\ DOMAIN resp = {"status"}

C23_Witness ==
  /\ req.endpoint = "get"
  /\ pc = "done"
  /\ Len(calls) = 2
  /\ calls[2].op = "SyncBookmarksContent"
  /\ calls[2].code = 404
  /\ \E k \in DOMAIN bsyncs : bsyncs[k].Type = "delete"
  /\ resultList # EmptyMap
  /\ resp.status = 500

(***************************************************************************)
(* Properties of the article rewrite: ordinals (SpecRewrite).              *)
(***************************************************************************)
\* The rewritten tree has the shape of the document: every node is either
\* the node of the document, with its children in the same positions, or an
\* IMG_<k> comment standing where the document has an img with a src.
RECURSIVE SameShape(_, _), SameShapeIn(_, _)
SameShape(n, out) ==
  \/ IsImgWithSrc(n) /\ IsMarker(out) /\ out.children = <<>>
  \/ /\ out.type = n.type /\ out.data = n.data /\ out.src = n.src
     /\ SameShapeIn(n.children, out.children)
SameShapeIn(ns, outs) ==
  /\ Len(ns) = Len(outs)
  /\ \A k \in DOMAIN ns : SameShape(ns[k], outs[k])

\* The replaced elements in depth-first pre-order: the ordinal of the marker
\* and the src of the element it stands for.
RECURSIVE Replaced(_, _), ReplacedIn(_, _)
Replaced(n, out) ==
  IF IsImgWithSrc(n) /\ IsMarker(out)
  THEN << [ordinal |-> out.data[2], src |-> n.src] >>
  ELSE ReplacedIn(n.children, out.children)
ReplacedIn(ns, outs) ==
  IF ns = <<>> \/ outs = <<>> THEN <<>>
  ELSE Replaced(Head(ns), Head(outs)) \o ReplacedIn(Tail(ns), Tail(outs))

\* C24: the rewrite assigns the ordinals 0, 1, 2, ... without gaps in
\* depth-first pre-order; marker IMG_k stands at the sibling position of the
\* k-th replaced img element, all other nodes keep their place, and entry k
\* of the image map carries the src of that element.
C24_OrdinalsInDocumentOrder ==
  Rewritten =>
    LET out == resp.first.article
        images == resp.first.images
        r == Replaced(req.doc, out)
    IN  /\ SameShape(req.doc, out)
        /\ DOMAIN images = 0..(Len(r) - 1)
        /\ \A k \in DOMAIN r :
             /\ r[k].ordinal = k - 1
             /\ images[k - 1].src = r[k].src
             /\ images[k - 1].image_id = k - 1
             /\ images[k - 1].item_id = k - 1

C24_Witness ==
  /\ Rewritten
  /\ req.doc = Document(<< Div(<< Img("s2") >>), Img("s1") >>)
  /\ resp.first.article =
       Document(<< Div(<< Comment(Marker(0)) >>), Comment(Marker(1)) >>)
  /\ resp.first.images[0].src = "s2"
  /\ resp.first.images[1].src = "s1"

(***************************************************************************)
(* Properties of POST /api/kobo/get: the window (SpecSync).                *)
(***************************************************************************)
\* Positions of the feed-ordered sequence of eligible items that the
\* request asks for: offset+1 .. offset+count, counted from 1, and all
\* positions after offset when count is 0.
AskedPositions ==
  { k \in DOMAIN EligibleSeq :
      /\ k > Atoi(req.Offset)
      /\ Atoi(req.Count) = 0 \/ k <= Atoi(req.Offset) + Atoi(req.Count) }

\* C25: the Full items of a sync answered with 200 are exactly the items at
\* the positions offset .. offset+count-1 (counted from 0) of the
\* feed-ordered sequence of non-archived found items, and all items from
\* position offset on when count = 0; when the offset is at or beyond the
\* end of the sequence the answer is still 200 and holds no Full item.
C25_WindowIsExact ==
  BatchFetched =>
    /\ resp.status = 200 =>
         FullIds(resp.list) = { EligibleSeq[k].ID : k \in AskedPositions }
    /\ Atoi(req.Offset) >= Len(EligibleSeq) =>
         /\ resp.status = 200
         /\ FullIds(resp.list) = {}

\* The window bounds the handler computes for the request.
WindowStart == StartIndex(Atoi(req.Offset), Atoi(req.Count), Len(EligibleSeq))
WindowEnd == EndIndex(Atoi(req.Offset), Atoi(req.Count), Len(EligibleSeq))

\* C27: for every offset and count decoded from the request (negative
\* integers included, a non-numeric string counting as 0) and every feed,
\* the window bounds satisfy 0 <= start <= end <= number of eligible items,
\* so the handler never fails with an out-of-range slice.
C27_WindowInRange ==
  BatchFetched =>
    /\ 0 <= WindowStart
    /\ WindowStart <= WindowEnd
    /\ WindowEnd <= Len(EligibleSeq)
    /\ resp # PanicResp

\* The delete events of the feed.
DeleteEvents == { k \in DOMAIN bsyncs : bsyncs[k].Type = "delete" }

\* C28: delete events are exempt from the window: in every sync answered
\* with 200, full or incremental, the id of every delete event of the feed is
\* a key of `list`, whatever offset and count are and however many Full
\* items the window holds.
C28_DeletesNotWindowed ==
  SyncAnswered200 =>
    \A k \in DeleteEvents : bsyncs[k].ID \in DOMAIN resp.list

\* A delete event is listed next to a window that is full (count = 1 and one
\* Full item).
C28_Witness ==
  /\ SyncAnswered200
  /\ Atoi(req.Count) = 1
  /\ Cardinality(FullIds(resp.list)) = 1
  /\ \E k \in DeleteEvents :
       /\ bsyncs[k].ID \in DOMAIN resp.list
       /\ resp.list[bsyncs[k].ID].status = "2"

(***************************************************************************)
(* Properties of POST /api/kobo/download: the page loop (SpecDownload).    *)
(***************************************************************************)
\* Positions in the log of the page requests made for site candidate s.
PageRequests(s) == { k \in DOMAIN calls : IsSearch(k) /\ calls[k].siteIdx = s }

\* The number of pages an answered page request reports: the Total-Pages
\* header, and 1 when it is absent, unparsable or not positive.
ReportedTotalPages(k) ==
  LET h == calls[k].totalPagesStr
  IN  IF AtoiFails(h) \/ Atoi(h) <= 0 THEN 1 ELSE Atoi(h)

\* The search is over for site candidate s: a later candidate was searched,
\* or the search ended without a bookmark.
SiteSearched(s) ==
  \/ \E k \in DOMAIN calls : IsSearch(k) /\ calls[k].siteIdx > s
  \/ pc = "done" /\ resp.status = 404

\* C26: for each site candidate the search requests page 1 at least once
\* (also when the backend reports no usable or no positive number of pages,
\* which counts as 1), requests the pages in increasing order, each at most
\* once, and makes at most T page requests when every answer reports at
\* most T pages.
C26_PageLoop ==
  DownloadSearched =>
    \A s \in DOMAIN sitesToTry :
      /\ SiteSearched(s) => \E k \in PageRequests(s) : calls[k].page = 1
      /\ \A j, k \in PageRequests(s) : j < k => calls[j].page < calls[k].page
      /\ { calls[k].page : k \in PageRequests(s) } = 1..Cardinality(PageRequests(s))
      /\ \A T \in 1..(Len(calls) + 1) :
           (\A k \in PageRequests(s) : ReportedTotalPages(k) <= T)
           => Cardinality(PageRequests(s)) <= T

\* Both site candidates were searched: the first over the two pages its
\* answers report, the second over one page although its answer reports 0.
C26_Witness ==
  /\ DownloadSearched
  /\ pc = "done"
  /\ resp.status = 404
  /\ Len(calls) = 3
  /\ calls[1].siteIdx = 1 /\ calls[1].page = 1 /\ calls[1].totalPagesStr = <<"2">>
  /\ calls[2].siteIdx = 1 /\ calls[2].page = 2 /\ Is2xx(calls[2].code)
  /\ calls[3].siteIdx = 2 /\ calls[3].page = 1 /\ calls[3].totalPagesStr = <<"0">>

(***************************************************************************)
(* Properties of concurrently served requests (SpecServe).                 *)
(***************************************************************************)
\* The users whose device token is the accessToken of the request that
\* backend call k was made for.
UsersOfCall(k) ==
  { u \in DOMAIN Users : Users[u].Token = req[calls[k].g].AccessToken }

\* C29: every backend call made while serving a request carries the bearer
\* credential configured for the user whose token is the accessToken of
\* that request; with the requests of two users interleaved in any order,
\* no call made for one user's request carries the other user's credential.
C29_OwnCredentialOnly ==
  \A k \in DOMAIN calls :
    /\ \E u \in UsersOfCall(k) :
         calls[k].Authorization = <<"Bearer", Users[u].ReadeckAccessToken>>
    /\ \A v \in DOMAIN Users \ UsersOfCall(k) :
         calls[k].Authorization # <<"Bearer", Users[v].ReadeckAccessToken>>

\* The calls of two requests of different users alternate in the log.
C29_Witness ==
  /\ Len(calls) >= 3
  /\ req[1].AccessToken = "devA"
  /\ req[2].AccessToken = "devB"
  /\ calls[1].g = 1 /\ calls[1].Authorization = <<"Bearer", "credA">>
  /\ calls[2].g = 2 /\ calls[2].Authorization = <<"Bearer", "credB">>
  /\ calls[3].g = 1 /\ calls[3].Authorization = <<"Bearer", "credA">>

====
